---- MODULE Spec2Model ----
(***************************************************************************)
(* A model of app.py: the /webhook handler of the anime recommendation bot *)
(* (parse_query, build_anilist_query, the normalisation loop,              *)
(* generate_nikko_response) and the flask_caching decorator in front of it.*)
(*                                                                         *)
(* Text that the code transforms (genres, query text, model replies) is a  *)
(* sequence of Unicode code points, so that strip(), capitalize() and      *)
(* int() are computed.  The fixed messages of the code are TLA+ strings;   *)
(* their emoji are left out.  A JSON value is a record tagged by "kind"; a *)
(* dict key that is missing is the value JAbsent.                          *)
(***************************************************************************)
EXTENDS Integers, Sequences, FiniteSets, TLC

VARIABLES
  unit,             \* which function a single-function specification exercises
  arg,              \* its input
  ret,              \* its result (NotCalled before the call)
  n_requests,       \* requests received so far; request i is the i-th received
  cache,            \* SimpleCache: cache key -> entry, NoEntry when absent/expired
  pc,               \* per request: new, extract, anilist, synth, done
  request,          \* per request: what was posted (args, body)
  user_query,       \* per request: webhook's local user_query (stripped queryText)
  params,           \* per request: webhook's local params
  recommendations,  \* per request: webhook's local recommendations
  response,         \* per request: the response returned to it
  from_cache,       \* per request: TRUE when the cache decorator served the response
  origin,           \* per request: the request whose handling computed the response
  lm_calls,         \* per request: model calls made while handling it, in order
  anilist_calls,    \* per request: metadata service calls made while handling it
  anilist_reply     \* per request: what requests.post delivered to it

vars == <<unit, arg, ret, pc, n_requests, request, user_query, params,
          recommendations, response, from_cache, origin, cache, lm_calls,
          anilist_calls, anilist_reply>>

fnVars == <<unit, arg, ret>>
hookVars == <<pc, n_requests, request, user_query, params, recommendations,
              response, from_cache, origin, cache, lm_calls, anilist_calls,
              anilist_reply>>

----------------------------------------------------------------------------
(* Bounds of the model. *)

MaxGenres == 2      \* longest genres list in a model reply
MaxMedia == 2       \* longest media list handed to the normalisation loop
MaxRecs == 2        \* longest recommendation list handed to generate_nikko_response
MaxRequests == 2    \* requests received in one behaviour, in flight together

----------------------------------------------------------------------------
(* Sequences. *)

SeqUpTo(S, n) == UNION {[1..k -> S] : k \in 0..n}

Min2(a, b) == IF a < b THEN a ELSE b

----------------------------------------------------------------------------
(* Python str methods on sequences of code points. *)

\* str.isspace(): the characters str.strip() removes.
Whitespace ==
  (9..13) \cup (28..32) \cup {133, 160, 5760} \cup (8192..8202)
    \cup {8232, 8233, 8239, 8287, 12288}

RECURSIVE LStrip(_, _)
LStrip(s, chars) ==
  IF s # <<>> /\ Head(s) \in chars THEN LStrip(Tail(s), chars) ELSE s

RECURSIVE RStrip(_, _)
RStrip(s, chars) ==
  IF s # <<>> /\ s[Len(s)] \in chars
  THEN RStrip(SubSeq(s, 1, Len(s) - 1), chars) ELSE s

\* str.strip()
Strip(s) == RStrip(LStrip(s, Whitespace), Whitespace)

\* The case tables of the interpreter's Unicode database (Unicode 14.0).
\* A run <<lo, hi, step, delta>> maps the code points lo, lo + step, .., hi
\* to themselves plus delta; a special entry maps a code point to several.
LowerRuns ==
  <<
     <<65, 90, 1, 32>>, <<192, 214, 1, 32>>, <<216, 222, 1, 32>>,
     <<256, 302, 2, 1>>, <<306, 310, 2, 1>>, <<313, 327, 2, 1>>,
     <<330, 374, 2, 1>>, <<376, 376, 1, -121>>, <<377, 381, 2, 1>>,
     <<385, 385, 1, 210>>, <<386, 388, 2, 1>>, <<390, 390, 1, 206>>,
     <<391, 391, 1, 1>>, <<393, 394, 1, 205>>, <<395, 395, 1, 1>>,
     <<398, 398, 1, 79>>, <<399, 399, 1, 202>>, <<400, 400, 1, 203>>,
     <<401, 401, 1, 1>>, <<403, 403, 1, 205>>, <<404, 404, 1, 207>>,
     <<406, 406, 1, 211>>, <<407, 407, 1, 209>>, <<408, 408, 1, 1>>,
     <<412, 412, 1, 211>>, <<413, 413, 1, 213>>, <<415, 415, 1, 214>>,
     <<416, 420, 2, 1>>, <<422, 422, 1, 218>>, <<423, 423, 1, 1>>,
     <<425, 425, 1, 218>>, <<428, 428, 1, 1>>, <<430, 430, 1, 218>>,
     <<431, 431, 1, 1>>, <<433, 434, 1, 217>>, <<435, 437, 2, 1>>,
     <<439, 439, 1, 219>>, <<440, 440, 1, 1>>, <<444, 444, 1, 1>>,
     <<452, 452, 1, 2>>, <<453, 453, 1, 1>>, <<455, 455, 1, 2>>,
     <<456, 456, 1, 1>>, <<458, 458, 1, 2>>, <<459, 475, 2, 1>>,
     <<478, 494, 2, 1>>, <<497, 497, 1, 2>>, <<498, 500, 2, 1>>,
     <<502, 502, 1, -97>>, <<503, 503, 1, -56>>, <<504, 542, 2, 1>>,
     <<544, 544, 1, -130>>, <<546, 562, 2, 1>>, <<570, 570, 1, 10795>>,
     <<571, 571, 1, 1>>, <<573, 573, 1, -163>>, <<574, 574, 1, 10792>>,
     <<577, 577, 1, 1>>, <<579, 579, 1, -195>>, <<580, 580, 1, 69>>,
     <<581, 581, 1, 71>>, <<582, 590, 2, 1>>, <<880, 882, 2, 1>>,
     <<886, 886, 1, 1>>, <<895, 895, 1, 116>>, <<902, 902, 1, 38>>,
     <<904, 906, 1, 37>>, <<908, 908, 1, 64>>, <<910, 911, 1, 63>>,
     <<913, 929, 1, 32>>, <<931, 939, 1, 32>>, <<975, 975, 1, 8>>,
     <<984, 1006, 2, 1>>, <<1012, 1012, 1, -60>>, <<1015, 1015, 1, 1>>,
     <<1017, 1017, 1, -7>>, <<1018, 1018, 1, 1>>, <<1021, 1023, 1, -130>>,
     <<1024, 1039, 1, 80>>, <<1040, 1071, 1, 32>>, <<1120, 1152, 2, 1>>,
     <<1162, 1214, 2, 1>>, <<1216, 1216, 1, 15>>, <<1217, 1229, 2, 1>>,
     <<1232, 1326, 2, 1>>, <<1329, 1366, 1, 48>>, <<4256, 4293, 1, 7264>>,
     <<4295, 4295, 1, 7264>>, <<4301, 4301, 1, 7264>>,
     <<5024, 5103, 1, 38864>>, <<5104, 5109, 1, 8>>,
     <<7312, 7354, 1, -3008>>, <<7357, 7359, 1, -3008>>,
     <<7680, 7828, 2, 1>>, <<7838, 7838, 1, -7615>>, <<7840, 7934, 2, 1>>,
     <<7944, 7951, 1, -8>>, <<7960, 7965, 1, -8>>, <<7976, 7983, 1, -8>>,
     <<7992, 7999, 1, -8>>, <<8008, 8013, 1, -8>>, <<8025, 8031, 2, -8>>,
     <<8040, 8047, 1, -8>>, <<8072, 8079, 1, -8>>, <<8088, 8095, 1, -8>>,
     <<8104, 8111, 1, -8>>, <<8120, 8121, 1, -8>>, <<8122, 8123, 1, -74>>,
     <<8124, 8124, 1, -9>>, <<8136, 8139, 1, -86>>, <<8140, 8140, 1, -9>>,
     <<8152, 8153, 1, -8>>, <<8154, 8155, 1, -100>>, <<8168, 8169, 1, -8>>,
     <<8170, 8171, 1, -112>>, <<8172, 8172, 1, -7>>,
     <<8184, 8185, 1, -128>>, <<8186, 8187, 1, -126>>,
     <<8188, 8188, 1, -9>>, <<8486, 8486, 1, -7517>>,
     <<8490, 8490, 1, -8383>>, <<8491, 8491, 1, -8262>>,
     <<8498, 8498, 1, 28>>, <<8544, 8559, 1, 16>>, <<8579, 8579, 1, 1>>,
     <<9398, 9423, 1, 26>>, <<11264, 11311, 1, 48>>, <<11360, 11360, 1, 1>>,
     <<11362, 11362, 1, -10743>>, <<11363, 11363, 1, -3814>>,
     <<11364, 11364, 1, -10727>>, <<11367, 11371, 2, 1>>,
     <<11373, 11373, 1, -10780>>, <<11374, 11374, 1, -10749>>,
     <<11375, 11375, 1, -10783>>, <<11376, 11376, 1, -10782>>,
     <<11378, 11378, 1, 1>>, <<11381, 11381, 1, 1>>,
     <<11390, 11391, 1, -10815>>, <<11392, 11490, 2, 1>>,
     <<11499, 11501, 2, 1>>, <<11506, 11506, 1, 1>>, <<42560, 42604, 2, 1>>,
     <<42624, 42650, 2, 1>>, <<42786, 42798, 2, 1>>, <<42802, 42862, 2, 1>>,
     <<42873, 42875, 2, 1>>, <<42877, 42877, 1, -35332>>,
     <<42878, 42886, 2, 1>>, <<42891, 42891, 1, 1>>,
     <<42893, 42893, 1, -42280>>, <<42896, 42898, 2, 1>>,
     <<42902, 42920, 2, 1>>, <<42922, 42922, 1, -42308>>,
     <<42923, 42923, 1, -42319>>, <<42924, 42924, 1, -42315>>,
     <<42925, 42925, 1, -42305>>, <<42926, 42926, 1, -42308>>,
     <<42928, 42928, 1, -42258>>, <<42929, 42929, 1, -42282>>,
     <<42930, 42930, 1, -42261>>, <<42931, 42931, 1, 928>>,
     <<42932, 42946, 2, 1>>, <<42948, 42948, 1, -48>>,
     <<42949, 42949, 1, -42307>>, <<42950, 42950, 1, -35384>>,
     <<42951, 42953, 2, 1>>, <<42960, 42960, 1, 1>>, <<42966, 42968, 2, 1>>,
     <<42997, 42997, 1, 1>>, <<65313, 65338, 1, 32>>,
     <<66560, 66599, 1, 40>>, <<66736, 66771, 1, 40>>,
     <<66928, 66964, 2, 39>>, <<66929, 66937, 2, 39>>,
     <<66941, 66953, 2, 39>>, <<66957, 66961, 2, 39>>,
     <<66965, 66965, 1, 39>>, <<68736, 68786, 1, 64>>,
     <<71840, 71871, 1, 32>>, <<93760, 93791, 1, 32>>,
     <<125184, 125217, 1, 34>>
  >>

LowerSpecial ==
  <<
     <<304, <<105, 775>>>>
  >>

TitleRuns ==
  <<
     <<97, 122, 1, -32>>, <<181, 181, 1, 743>>, <<224, 246, 1, -32>>,
     <<248, 254, 1, -32>>, <<255, 255, 1, 121>>, <<257, 303, 2, -1>>,
     <<305, 305, 1, -232>>, <<307, 311, 2, -1>>, <<314, 328, 2, -1>>,
     <<331, 375, 2, -1>>, <<378, 382, 2, -1>>, <<383, 383, 1, -300>>,
     <<384, 384, 1, 195>>, <<387, 389, 2, -1>>, <<392, 392, 1, -1>>,
     <<396, 396, 1, -1>>, <<402, 402, 1, -1>>, <<405, 405, 1, 97>>,
     <<409, 409, 1, -1>>, <<410, 410, 1, 163>>, <<414, 414, 1, 130>>,
     <<417, 421, 2, -1>>, <<424, 424, 1, -1>>, <<429, 429, 1, -1>>,
     <<432, 432, 1, -1>>, <<436, 438, 2, -1>>, <<441, 441, 1, -1>>,
     <<445, 445, 1, -1>>, <<447, 447, 1, 56>>, <<452, 452, 1, 1>>,
     <<454, 454, 1, -1>>, <<455, 455, 1, 1>>, <<457, 457, 1, -1>>,
     <<458, 458, 1, 1>>, <<460, 476, 2, -1>>, <<477, 477, 1, -79>>,
     <<479, 495, 2, -1>>, <<497, 497, 1, 1>>, <<499, 501, 2, -1>>,
     <<505, 543, 2, -1>>, <<547, 563, 2, -1>>, <<572, 572, 1, -1>>,
     <<575, 576, 1, 10815>>, <<578, 578, 1, -1>>, <<583, 591, 2, -1>>,
     <<592, 592, 1, 10783>>, <<593, 593, 1, 10780>>, <<594, 594, 1, 10782>>,
     <<595, 595, 1, -210>>, <<596, 596, 1, -206>>, <<598, 599, 1, -205>>,
     <<601, 601, 1, -202>>, <<603, 603, 1, -203>>, <<604, 604, 1, 42319>>,
     <<608, 608, 1, -205>>, <<609, 609, 1, 42315>>, <<611, 611, 1, -207>>,
     <<613, 613, 1, 42280>>, <<614, 614, 1, 42308>>, <<616, 616, 1, -209>>,
     <<617, 617, 1, -211>>, <<618, 618, 1, 42308>>, <<619, 619, 1, 10743>>,
     <<620, 620, 1, 42305>>, <<623, 623, 1, -211>>, <<625, 625, 1, 10749>>,
     <<626, 626, 1, -213>>, <<629, 629, 1, -214>>, <<637, 637, 1, 10727>>,
     <<640, 640, 1, -218>>, <<642, 642, 1, 42307>>, <<643, 643, 1, -218>>,
     <<647, 647, 1, 42282>>, <<648, 648, 1, -218>>, <<649, 649, 1, -69>>,
     <<650, 651, 1, -217>>, <<652, 652, 1, -71>>, <<658, 658, 1, -219>>,
     <<669, 669, 1, 42261>>, <<670, 670, 1, 42258>>, <<837, 837, 1, 84>>,
     <<881, 883, 2, -1>>, <<887, 887, 1, -1>>, <<891, 893, 1, 130>>,
     <<940, 940, 1, -38>>, <<941, 943, 1, -37>>, <<945, 961, 1, -32>>,
     <<962, 962, 1, -31>>, <<963, 971, 1, -32>>, <<972, 972, 1, -64>>,
     <<973, 974, 1, -63>>, <<976, 976, 1, -62>>, <<977, 977, 1, -57>>,
     <<981, 981, 1, -47>>, <<982, 982, 1, -54>>, <<983, 983, 1, -8>>,
     <<985, 1007, 2, -1>>, <<1008, 1008, 1, -86>>, <<1009, 1009, 1, -80>>,
     <<1010, 1010, 1, 7>>, <<1011, 1011, 1, -116>>, <<1013, 1013, 1, -96>>,
     <<1016, 1016, 1, -1>>, <<1019, 1019, 1, -1>>, <<1072, 1103, 1, -32>>,
     <<1104, 1119, 1, -80>>, <<1121, 1153, 2, -1>>, <<1163, 1215, 2, -1>>,
     <<1218, 1230, 2, -1>>, <<1231, 1231, 1, -15>>, <<1233, 1327, 2, -1>>,
     <<1377, 1414, 1, -48>>, <<5112, 5117, 1, -8>>,
     <<7296, 7296, 1, -6254>>, <<7297, 7297, 1, -6253>>,
     <<7298, 7298, 1, -6244>>, <<7299, 7300, 1, -6242>>,
     <<7301, 7301, 1, -6243>>, <<7302, 7302, 1, -6236>>,
     <<7303, 7303, 1, -6181>>, <<7304, 7304, 1, 35266>>,
     <<7545, 7545, 1, 35332>>, <<7549, 7549, 1, 3814>>,
     <<7566, 7566, 1, 35384>>, <<7681, 7829, 2, -1>>,
     <<7835, 7835, 1, -59>>, <<7841, 7935, 2, -1>>, <<7936, 7943, 1, 8>>,
     <<7952, 7957, 1, 8>>, <<7968, 7975, 1, 8>>, <<7984, 7991, 1, 8>>,
     <<8000, 8005, 1, 8>>, <<8017, 8023, 2, 8>>, <<8032, 8039, 1, 8>>,
     <<8048, 8049, 1, 74>>, <<8050, 8053, 1, 86>>, <<8054, 8055, 1, 100>>,
     <<8056, 8057, 1, 128>>, <<8058, 8059, 1, 112>>, <<8060, 8061, 1, 126>>,
     <<8064, 8071, 1, 8>>, <<8080, 8087, 1, 8>>, <<8096, 8103, 1, 8>>,
     <<8112, 8113, 1, 8>>, <<8115, 8115, 1, 9>>, <<8126, 8126, 1, -7205>>,
     <<8131, 8131, 1, 9>>, <<8144, 8145, 1, 8>>, <<8160, 8161, 1, 8>>,
     <<8165, 8165, 1, 7>>, <<8179, 8179, 1, 9>>, <<8526, 8526, 1, -28>>,
     <<8560, 8575, 1, -16>>, <<8580, 8580, 1, -1>>, <<9424, 9449, 1, -26>>,
     <<11312, 11359, 1, -48>>, <<11361, 11361, 1, -1>>,
     <<11365, 11365, 1, -10795>>, <<11366, 11366, 1, -10792>>,
     <<11368, 11372, 2, -1>>, <<11379, 11379, 1, -1>>,
     <<11382, 11382, 1, -1>>, <<11393, 11491, 2, -1>>,
     <<11500, 11502, 2, -1>>, <<11507, 11507, 1, -1>>,
     <<11520, 11557, 1, -7264>>, <<11559, 11559, 1, -7264>>,
     <<11565, 11565, 1, -7264>>, <<42561, 42605, 2, -1>>,
     <<42625, 42651, 2, -1>>, <<42787, 42799, 2, -1>>,
     <<42803, 42863, 2, -1>>, <<42874, 42876, 2, -1>>,
     <<42879, 42887, 2, -1>>, <<42892, 42892, 1, -1>>,
     <<42897, 42899, 2, -1>>, <<42900, 42900, 1, 48>>,
     <<42903, 42921, 2, -1>>, <<42933, 42947, 2, -1>>,
     <<42952, 42954, 2, -1>>, <<42961, 42961, 1, -1>>,
     <<42967, 42969, 2, -1>>, <<42998, 42998, 1, -1>>,
     <<43859, 43859, 1, -928>>, <<43888, 43967, 1, -38864>>,
     <<65345, 65370, 1, -32>>, <<66600, 66639, 1, -40>>,
     <<66776, 66811, 1, -40>>, <<66967, 67003, 2, -39>>,
     <<66968, 66976, 2, -39>>, <<66980, 66992, 2, -39>>,
     <<66996, 67000, 2, -39>>, <<67004, 67004, 1, -39>>,
     <<68800, 68850, 1, -64>>, <<71872, 71903, 1, -32>>,
     <<93792, 93823, 1, -32>>, <<125218, 125251, 1, -34>>
  >>

TitleSpecial ==
  <<
     <<223, <<83, 115>>>>, <<329, <<700, 78>>>>, <<496, <<74, 780>>>>,
     <<912, <<921, 776, 769>>>>, <<944, <<933, 776, 769>>>>,
     <<1415, <<1333, 1410>>>>, <<7830, <<72, 817>>>>, <<7831, <<84, 776>>>>,
     <<7832, <<87, 778>>>>, <<7833, <<89, 778>>>>, <<7834, <<65, 702>>>>,
     <<8016, <<933, 787>>>>, <<8018, <<933, 787, 768>>>>,
     <<8020, <<933, 787, 769>>>>, <<8022, <<933, 787, 834>>>>,
     <<8114, <<8122, 837>>>>, <<8116, <<902, 837>>>>,
     <<8118, <<913, 834>>>>, <<8119, <<913, 834, 837>>>>,
     <<8130, <<8138, 837>>>>, <<8132, <<905, 837>>>>,
     <<8134, <<919, 834>>>>, <<8135, <<919, 834, 837>>>>,
     <<8146, <<921, 776, 768>>>>, <<8147, <<921, 776, 769>>>>,
     <<8150, <<921, 834>>>>, <<8151, <<921, 776, 834>>>>,
     <<8162, <<933, 776, 768>>>>, <<8163, <<933, 776, 769>>>>,
     <<8164, <<929, 787>>>>, <<8166, <<933, 834>>>>,
     <<8167, <<933, 776, 834>>>>, <<8178, <<8186, 837>>>>,
     <<8180, <<911, 837>>>>, <<8182, <<937, 834>>>>,
     <<8183, <<937, 834, 837>>>>, <<64256, <<70, 102>>>>,
     <<64257, <<70, 105>>>>, <<64258, <<70, 108>>>>,
     <<64259, <<70, 102, 105>>>>, <<64260, <<70, 102, 108>>>>,
     <<64261, <<83, 116>>>>, <<64262, <<83, 116>>>>,
     <<64275, <<1348, 1398>>>>, <<64276, <<1348, 1381>>>>,
     <<64277, <<1348, 1387>>>>, <<64278, <<1358, 1398>>>>,
     <<64279, <<1348, 1389>>>>
  >>

\* Ranges <<lo, hi>> of the characters that are cased and not case-ignorable,
\* and of those that are case-ignorable.
CasedRanges ==
  <<
     <<65, 90>>, <<97, 122>>, <<170, 170>>, <<181, 181>>, <<186, 186>>,
     <<192, 214>>, <<216, 246>>, <<248, 442>>, <<444, 447>>, <<452, 659>>,
     <<661, 687>>, <<880, 883>>, <<886, 887>>, <<891, 893>>, <<895, 895>>,
     <<902, 902>>, <<904, 906>>, <<908, 908>>, <<910, 929>>, <<931, 1013>>,
     <<1015, 1153>>, <<1162, 1327>>, <<1329, 1366>>, <<1376, 1416>>,
     <<4256, 4293>>, <<4295, 4295>>, <<4301, 4301>>, <<4304, 4346>>,
     <<4349, 4351>>, <<5024, 5109>>, <<5112, 5117>>, <<7296, 7304>>,
     <<7312, 7354>>, <<7357, 7359>>, <<7424, 7467>>, <<7531, 7543>>,
     <<7545, 7578>>, <<7680, 7957>>, <<7960, 7965>>, <<7968, 8005>>,
     <<8008, 8013>>, <<8016, 8023>>, <<8025, 8025>>, <<8027, 8027>>,
     <<8029, 8029>>, <<8031, 8061>>, <<8064, 8116>>, <<8118, 8124>>,
     <<8126, 8126>>, <<8130, 8132>>, <<8134, 8140>>, <<8144, 8147>>,
     <<8150, 8155>>, <<8160, 8172>>, <<8178, 8180>>, <<8182, 8188>>,
     <<8450, 8450>>, <<8455, 8455>>, <<8458, 8467>>, <<8469, 8469>>,
     <<8473, 8477>>, <<8484, 8484>>, <<8486, 8486>>, <<8488, 8488>>,
     <<8490, 8493>>, <<8495, 8500>>, <<8505, 8505>>, <<8508, 8511>>,
     <<8517, 8521>>, <<8526, 8526>>, <<8544, 8575>>, <<8579, 8580>>,
     <<9398, 9449>>, <<11264, 11387>>, <<11390, 11492>>, <<11499, 11502>>,
     <<11506, 11507>>, <<11520, 11557>>, <<11559, 11559>>, <<11565, 11565>>,
     <<42560, 42605>>, <<42624, 42651>>, <<42786, 42863>>, <<42865, 42887>>,
     <<42891, 42894>>, <<42896, 42954>>, <<42960, 42961>>, <<42963, 42963>>,
     <<42965, 42969>>, <<42997, 42998>>, <<43002, 43002>>, <<43824, 43866>>,
     <<43872, 43880>>, <<43888, 43967>>, <<64256, 64262>>, <<64275, 64279>>,
     <<65313, 65338>>, <<65345, 65370>>, <<66560, 66639>>, <<66736, 66771>>,
     <<66776, 66811>>, <<66928, 66938>>, <<66940, 66954>>, <<66956, 66962>>,
     <<66964, 66965>>, <<66967, 66977>>, <<66979, 66993>>, <<66995, 67001>>,
     <<67003, 67004>>, <<68736, 68786>>, <<68800, 68850>>, <<71840, 71903>>,
     <<93760, 93823>>, <<119808, 119892>>, <<119894, 119964>>,
     <<119966, 119967>>, <<119970, 119970>>, <<119973, 119974>>,
     <<119977, 119980>>, <<119982, 119993>>, <<119995, 119995>>,
     <<119997, 120003>>, <<120005, 120069>>, <<120071, 120074>>,
     <<120077, 120084>>, <<120086, 120092>>, <<120094, 120121>>,
     <<120123, 120126>>, <<120128, 120132>>, <<120134, 120134>>,
     <<120138, 120144>>, <<120146, 120485>>, <<120488, 120512>>,
     <<120514, 120538>>, <<120540, 120570>>, <<120572, 120596>>,
     <<120598, 120628>>, <<120630, 120654>>, <<120656, 120686>>,
     <<120688, 120712>>, <<120714, 120744>>, <<120746, 120770>>,
     <<120772, 120779>>, <<122624, 122633>>, <<122635, 122654>>,
     <<125184, 125251>>, <<127280, 127305>>, <<127312, 127337>>,
     <<127344, 127369>>
  >>

CaseIgnorableRanges ==
  <<
     <<39, 39>>, <<46, 46>>, <<58, 58>>, <<94, 94>>, <<96, 96>>,
     <<168, 168>>, <<173, 173>>, <<175, 175>>, <<180, 180>>, <<183, 184>>,
     <<688, 879>>, <<884, 885>>, <<890, 890>>, <<900, 901>>, <<903, 903>>,
     <<1155, 1161>>, <<1369, 1369>>, <<1375, 1375>>, <<1425, 1469>>,
     <<1471, 1471>>, <<1473, 1474>>, <<1476, 1477>>, <<1479, 1479>>,
     <<1524, 1524>>, <<1536, 1541>>, <<1552, 1562>>, <<1564, 1564>>,
     <<1600, 1600>>, <<1611, 1631>>, <<1648, 1648>>, <<1750, 1757>>,
     <<1759, 1768>>, <<1770, 1773>>, <<1807, 1807>>, <<1809, 1809>>,
     <<1840, 1866>>, <<1958, 1968>>, <<2027, 2037>>, <<2042, 2042>>,
     <<2045, 2045>>, <<2070, 2093>>, <<2137, 2139>>, <<2184, 2184>>,
     <<2192, 2193>>, <<2200, 2207>>, <<2249, 2306>>, <<2362, 2362>>,
     <<2364, 2364>>, <<2369, 2376>>, <<2381, 2381>>, <<2385, 2391>>,
     <<2402, 2403>>, <<2417, 2417>>, <<2433, 2433>>, <<2492, 2492>>,
     <<2497, 2500>>, <<2509, 2509>>, <<2530, 2531>>, <<2558, 2558>>,
     <<2561, 2562>>, <<2620, 2620>>, <<2625, 2626>>, <<2631, 2632>>,
     <<2635, 2637>>, <<2641, 2641>>, <<2672, 2673>>, <<2677, 2677>>,
     <<2689, 2690>>, <<2748, 2748>>, <<2753, 2757>>, <<2759, 2760>>,
     <<2765, 2765>>, <<2786, 2787>>, <<2810, 2815>>, <<2817, 2817>>,
     <<2876, 2876>>, <<2879, 2879>>, <<2881, 2884>>, <<2893, 2893>>,
     <<2901, 2902>>, <<2914, 2915>>, <<2946, 2946>>, <<3008, 3008>>,
     <<3021, 3021>>, <<3072, 3072>>, <<3076, 3076>>, <<3132, 3132>>,
     <<3134, 3136>>, <<3142, 3144>>, <<3146, 3149>>, <<3157, 3158>>,
     <<3170, 3171>>, <<3201, 3201>>, <<3260, 3260>>, <<3263, 3263>>,
     <<3270, 3270>>, <<3276, 3277>>, <<3298, 3299>>, <<3328, 3329>>,
     <<3387, 3388>>, <<3393, 3396>>, <<3405, 3405>>, <<3426, 3427>>,
     <<3457, 3457>>, <<3530, 3530>>, <<3538, 3540>>, <<3542, 3542>>,
     <<3633, 3633>>, <<3636, 3642>>, <<3654, 3662>>, <<3761, 3761>>,
     <<3764, 3772>>, <<3782, 3782>>, <<3784, 3789>>, <<3864, 3865>>,
     <<3893, 3893>>, <<3895, 3895>>, <<3897, 3897>>, <<3953, 3966>>,
     <<3968, 3972>>, <<3974, 3975>>, <<3981, 3991>>, <<3993, 4028>>,
     <<4038, 4038>>, <<4141, 4144>>, <<4146, 4151>>, <<4153, 4154>>,
     <<4157, 4158>>, <<4184, 4185>>, <<4190, 4192>>, <<4209, 4212>>,
     <<4226, 4226>>, <<4229, 4230>>, <<4237, 4237>>, <<4253, 4253>>,
     <<4348, 4348>>, <<4957, 4959>>, <<5906, 5908>>, <<5938, 5939>>,
     <<5970, 5971>>, <<6002, 6003>>, <<6068, 6069>>, <<6071, 6077>>,
     <<6086, 6086>>, <<6089, 6099>>, <<6103, 6103>>, <<6109, 6109>>,
     <<6155, 6159>>, <<6211, 6211>>, <<6277, 6278>>, <<6313, 6313>>,
     <<6432, 6434>>, <<6439, 6440>>, <<6450, 6450>>, <<6457, 6459>>,
     <<6679, 6680>>, <<6683, 6683>>, <<6742, 6742>>, <<6744, 6750>>,
     <<6752, 6752>>, <<6754, 6754>>, <<6757, 6764>>, <<6771, 6780>>,
     <<6783, 6783>>, <<6823, 6823>>, <<6832, 6862>>, <<6912, 6915>>,
     <<6964, 6964>>, <<6966, 6970>>, <<6972, 6972>>, <<6978, 6978>>,
     <<7019, 7027>>, <<7040, 7041>>, <<7074, 7077>>, <<7080, 7081>>,
     <<7083, 7085>>, <<7142, 7142>>, <<7144, 7145>>, <<7149, 7149>>,
     <<7151, 7153>>, <<7212, 7219>>, <<7222, 7223>>, <<7288, 7293>>,
     <<7376, 7378>>, <<7380, 7392>>, <<7394, 7400>>, <<7405, 7405>>,
     <<7412, 7412>>, <<7416, 7417>>, <<7468, 7530>>, <<7544, 7544>>,
     <<7579, 7679>>, <<8125, 8125>>, <<8127, 8129>>, <<8141, 8143>>,
     <<8157, 8159>>, <<8173, 8175>>, <<8189, 8190>>, <<8203, 8207>>,
     <<8216, 8217>>, <<8228, 8228>>, <<8231, 8231>>, <<8234, 8238>>,
     <<8288, 8292>>, <<8294, 8303>>, <<8305, 8305>>, <<8319, 8319>>,
     <<8336, 8348>>, <<8400, 8432>>, <<11388, 11389>>, <<11503, 11505>>,
     <<11631, 11631>>, <<11647, 11647>>, <<11744, 11775>>, <<11823, 11823>>,
     <<12293, 12293>>, <<12330, 12333>>, <<12337, 12341>>, <<12347, 12347>>,
     <<12441, 12446>>, <<12540, 12542>>, <<40981, 40981>>, <<42232, 42237>>,
     <<42508, 42508>>, <<42607, 42610>>, <<42612, 42621>>, <<42623, 42623>>,
     <<42652, 42655>>, <<42736, 42737>>, <<42752, 42785>>, <<42864, 42864>>,
     <<42888, 42890>>, <<42994, 42996>>, <<43000, 43001>>, <<43010, 43010>>,
     <<43014, 43014>>, <<43019, 43019>>, <<43045, 43046>>, <<43052, 43052>>,
     <<43204, 43205>>, <<43232, 43249>>, <<43263, 43263>>, <<43302, 43309>>,
     <<43335, 43345>>, <<43392, 43394>>, <<43443, 43443>>, <<43446, 43449>>,
     <<43452, 43453>>, <<43471, 43471>>, <<43493, 43494>>, <<43561, 43566>>,
     <<43569, 43570>>, <<43573, 43574>>, <<43587, 43587>>, <<43596, 43596>>,
     <<43632, 43632>>, <<43644, 43644>>, <<43696, 43696>>, <<43698, 43700>>,
     <<43703, 43704>>, <<43710, 43711>>, <<43713, 43713>>, <<43741, 43741>>,
     <<43756, 43757>>, <<43763, 43764>>, <<43766, 43766>>, <<43867, 43871>>,
     <<43881, 43883>>, <<44005, 44005>>, <<44008, 44008>>, <<44013, 44013>>,
     <<64286, 64286>>, <<64434, 64450>>, <<65024, 65039>>, <<65043, 65043>>,
     <<65056, 65071>>, <<65106, 65106>>, <<65109, 65109>>, <<65279, 65279>>,
     <<65287, 65287>>, <<65294, 65294>>, <<65306, 65306>>, <<65342, 65342>>,
     <<65344, 65344>>, <<65392, 65392>>, <<65438, 65439>>, <<65507, 65507>>,
     <<65529, 65531>>, <<66045, 66045>>, <<66272, 66272>>, <<66422, 66426>>,
     <<67456, 67461>>, <<67463, 67504>>, <<67506, 67514>>, <<68097, 68099>>,
     <<68101, 68102>>, <<68108, 68111>>, <<68152, 68154>>, <<68159, 68159>>,
     <<68325, 68326>>, <<68900, 68903>>, <<69291, 69292>>, <<69446, 69456>>,
     <<69506, 69509>>, <<69633, 69633>>, <<69688, 69702>>, <<69744, 69744>>,
     <<69747, 69748>>, <<69759, 69761>>, <<69811, 69814>>, <<69817, 69818>>,
     <<69821, 69821>>, <<69826, 69826>>, <<69837, 69837>>, <<69888, 69890>>,
     <<69927, 69931>>, <<69933, 69940>>, <<70003, 70003>>, <<70016, 70017>>,
     <<70070, 70078>>, <<70089, 70092>>, <<70095, 70095>>, <<70191, 70193>>,
     <<70196, 70196>>, <<70198, 70199>>, <<70206, 70206>>, <<70367, 70367>>,
     <<70371, 70378>>, <<70400, 70401>>, <<70459, 70460>>, <<70464, 70464>>,
     <<70502, 70508>>, <<70512, 70516>>, <<70712, 70719>>, <<70722, 70724>>,
     <<70726, 70726>>, <<70750, 70750>>, <<70835, 70840>>, <<70842, 70842>>,
     <<70847, 70848>>, <<70850, 70851>>, <<71090, 71093>>, <<71100, 71101>>,
     <<71103, 71104>>, <<71132, 71133>>, <<71219, 71226>>, <<71229, 71229>>,
     <<71231, 71232>>, <<71339, 71339>>, <<71341, 71341>>, <<71344, 71349>>,
     <<71351, 71351>>, <<71453, 71455>>, <<71458, 71461>>, <<71463, 71467>>,
     <<71727, 71735>>, <<71737, 71738>>, <<71995, 71996>>, <<71998, 71998>>,
     <<72003, 72003>>, <<72148, 72151>>, <<72154, 72155>>, <<72160, 72160>>,
     <<72193, 72202>>, <<72243, 72248>>, <<72251, 72254>>, <<72263, 72263>>,
     <<72273, 72278>>, <<72281, 72283>>, <<72330, 72342>>, <<72344, 72345>>,
     <<72752, 72758>>, <<72760, 72765>>, <<72767, 72767>>, <<72850, 72871>>,
     <<72874, 72880>>, <<72882, 72883>>, <<72885, 72886>>, <<73009, 73014>>,
     <<73018, 73018>>, <<73020, 73021>>, <<73023, 73029>>, <<73031, 73031>>,
     <<73104, 73105>>, <<73109, 73109>>, <<73111, 73111>>, <<73459, 73460>>,
     <<78896, 78904>>, <<92912, 92916>>, <<92976, 92982>>, <<92992, 92995>>,
     <<94031, 94031>>, <<94095, 94111>>, <<94176, 94177>>, <<94179, 94180>>,
     <<110576, 110579>>, <<110581, 110587>>, <<110589, 110590>>,
     <<113821, 113822>>, <<113824, 113827>>, <<118528, 118573>>,
     <<118576, 118598>>, <<119143, 119145>>, <<119155, 119170>>,
     <<119173, 119179>>, <<119210, 119213>>, <<119362, 119364>>,
     <<121344, 121398>>, <<121403, 121452>>, <<121461, 121461>>,
     <<121476, 121476>>, <<121499, 121503>>, <<121505, 121519>>,
     <<122880, 122886>>, <<122888, 122904>>, <<122907, 122913>>,
     <<122915, 122916>>, <<122918, 122922>>, <<123184, 123197>>,
     <<123566, 123566>>, <<123628, 123631>>, <<125136, 125142>>,
     <<125252, 125259>>, <<127995, 127999>>, <<917505, 917505>>,
     <<917536, 917631>>, <<917760, 917999>>
  >>

InRun(c, r) == r[1] <= c /\ c <= r[2] /\ (c - r[1]) % r[3] = 0
InRanges(c, rs) == \E i \in 1..Len(rs) : rs[i][1] <= c /\ c <= rs[i][2]

\* The full mapping of one character: a sequence of one to three characters.
MapCase(c, runs, special) ==
  IF \E i \in 1..Len(special) : special[i][1] = c
  THEN special[CHOOSE i \in 1..Len(special) : special[i][1] = c][2]
  ELSE IF \E i \in 1..Len(runs) : InRun(c, runs[i])
  THEN <<c + runs[CHOOSE i \in 1..Len(runs) : InRun(c, runs[i])][4]>>
  ELSE <<c>>

ToLowerFull(c) == MapCase(c, LowerRuns, LowerSpecial)
ToTitleFull(c) == MapCase(c, TitleRuns, TitleSpecial)

IsCased(c) == InRanges(c, CasedRanges)
IsCaseIgnorable(c) == InRanges(c, CaseIgnorableRanges)

CapitalSigma == 931   \* U+03A3
FinalSmallSigma == 962   \* U+03C2
SmallSigma == 963   \* U+03C3

\* The capital sigma at s[i] ends a word: the nearest character before it
\* that is not case-ignorable is cased, and the nearest one after it that
\* is not case-ignorable (if any) is not.
FinalSigma(s, i) ==
  /\ \E j \in 1..(i - 1) :
       /\ IsCased(s[j])
       /\ \A k \in (j + 1)..(i - 1) : IsCaseIgnorable(s[k])
  /\ \A j \in (i + 1)..Len(s) :
       IsCased(s[j]) => \E k \in (i + 1)..(j - 1) : ~IsCaseIgnorable(s[k])

\* The lower-casing of s[i] within s.
LowerAt(s, i) ==
  IF s[i] = CapitalSigma
  THEN <<IF FinalSigma(s, i) THEN FinalSmallSigma ELSE SmallSigma>>
  ELSE ToLowerFull(s[i])

RECURSIVE LowerFrom(_, _)
LowerFrom(s, i) == IF i > Len(s) THEN <<>> ELSE LowerAt(s, i) \o LowerFrom(s, i + 1)

\* str.capitalize(): the first character title-cased, the rest lower-cased.
Capitalize(s) ==
  IF s = <<>> THEN <<>> ELSE ToTitleFull(s[1]) \o LowerFrom(s, 2)

----------------------------------------------------------------------------
(* JSON values, as json.loads and dict.get deliver them. *)

JAbsent == [kind |-> "absent"]
JNull == [kind |-> "null"]
JInt(n) == [kind |-> "int", val |-> n]
JBool(b) == [kind |-> "bool", val |-> b]
JStr(s) == [kind |-> "str", val |-> s]
JList(xs) == [kind |-> "list", val |-> xs]
\* A float, kept in tenths: JFloat(27) is 2.7.
JFloat(t) == [kind |-> "float", val |-> t]
\* A dict whose keys are not fixed: its items in order, [key, val] each,
\* the key a character sequence.
JDict(items) == [kind |-> "dict", val |-> items]
Item(k, v) == [key |-> k, val |-> v]

\* dict.get(key, default) on a field that holds JAbsent when the key is missing.
Get(v, default) == IF v.kind = "absent" THEN default ELSE v

\* Python truthiness of a value (None for a missing key).
Truthy(v) ==
  CASE v.kind = "absent" -> FALSE
    [] v.kind = "null" -> FALSE
    [] v.kind = "int" -> v.val # 0
    [] v.kind = "float" -> v.val # 0
    [] v.kind = "bool" -> v.val
    [] v.kind = "str" -> v.val # <<>>
    [] v.kind = "list" -> v.val # <<>>
    [] v.kind = "dict" -> v.val # <<>>
    [] v.kind = "object" ->
         \E f \in DOMAIN v \ {"kind"} : v[f].kind # "absent"
    [] OTHER -> TRUE

\* The first code point of each run of ten decimal digits (category Nd).
DigitZeros ==
  <<
     48, 1632, 1776, 1984, 2406, 2534, 2662, 2790, 2918, 3046, 3174, 3302,
     3430, 3558, 3664, 3792, 3872, 4160, 4240, 6112, 6160, 6470, 6608, 6784,
     6800, 6992, 7088, 7232, 7248, 42528, 43216, 43264, 43472, 43504, 43600,
     44016, 65296, 66720, 68912, 69734, 69872, 69942, 70096, 70384, 70736,
     70864, 71248, 71360, 71472, 71904, 72016, 72784, 73040, 73120, 92768,
     92864, 93008, 120782, 120792, 120802, 120812, 120822, 123200, 123632,
     125264, 130032
  >>

IsDigit(c) == \E i \in 1..Len(DigitZeros) : c \in DigitZeros[i]..(DigitZeros[i] + 9)
DigitVal(c) ==
  c - DigitZeros[CHOOSE i \in 1..Len(DigitZeros) : c \in DigitZeros[i]..(DigitZeros[i] + 9)]

RECURSIVE DecVal(_)
DecVal(ds) ==
  IF ds = <<>> THEN 0 ELSE 10 * DecVal(SubSeq(ds, 1, Len(ds) - 1)) + DigitVal(ds[Len(ds)])

Underscore == 95
PlusSign == 43
MinusSign == 45

\* The blanks int() skips around a literal: the ASCII blanks of C's isspace
\* and the non-ASCII characters of str.isspace(); not U+001C..U+001F.
IntBlanks == Whitespace \ (28..31)

\* A decimal literal of int(): digits, with single underscores between them.
IsDecimal(ds) ==
  /\ ds # <<>>
  /\ IsDigit(ds[1]) /\ IsDigit(ds[Len(ds)])
  /\ \A i \in 1..Len(ds) : IsDigit(ds[i]) \/ ds[i] = Underscore
  /\ \A i \in 1..(Len(ds) - 1) : ~(ds[i] = Underscore /\ ds[i + 1] = Underscore)

\* int(x) of Python: [ok, val]; ok is FALSE where int() raises.
PyInt(v) ==
  CASE v.kind = "int" -> [ok |-> TRUE, val |-> v.val]
    [] v.kind = "bool" -> [ok |-> TRUE, val |-> IF v.val THEN 1 ELSE 0]
    [] v.kind = "float" ->
         [ok |-> TRUE,
          val |-> IF v.val >= 0 THEN v.val \div 10 ELSE -((-v.val) \div 10)]
    [] v.kind = "str" ->
         LET s == RStrip(LStrip(v.val, IntBlanks), IntBlanks)
             neg == s # <<>> /\ Head(s) = MinusSign
             ds == IF s # <<>> /\ Head(s) \in {MinusSign, PlusSign} THEN Tail(s) ELSE s
             dd == SelectSeq(ds, IsDigit)
         IN IF IsDecimal(ds)
            THEN [ok |-> TRUE, val |-> IF neg THEN -DecVal(dd) ELSE DecVal(dd)]
            ELSE [ok |-> FALSE, val |-> 0]
    [] OTHER -> [ok |-> FALSE, val |-> 0]

----------------------------------------------------------------------------
(* validate_genres *)

valid_genres ==
  << <<65,99,116,105,111,110>>,   \* "Action"
     <<65,100,118,101,110,116,117,114,101>>,   \* "Adventure"
     <<67,111,109,101,100,121>>,   \* "Comedy"
     <<68,114,97,109,97>>,   \* "Drama"
     <<70,97,110,116,97,115,121>>,   \* "Fantasy"
     <<72,111,114,114,111,114>>,   \* "Horror"
     <<77,121,115,116,101,114,121>>,   \* "Mystery"
     <<82,111,109,97,110,99,101>>,   \* "Romance"
     <<83,99,105,45,70,105>>,   \* "Sci-Fi"
     <<83,108,105,99,101,32,111,102,32,76,105,102,101>>,   \* "Slice of Life"
     <<83,112,111,114,116,115>>,   \* "Sports"
     <<83,117,112,101,114,110,97,116,117,114,97,108>>,   \* "Supernatural"
     <<84,104,114,105,108,108,101,114>> >>   \* "Thriller"

ValidGenreSet == {valid_genres[i] : i \in 1..Len(valid_genres)}

\* [g for g in parsed_genres if g in valid_genres].  Iterating a list yields
\* its items, of which only a str can equal an entry of valid_genres.
\* Iterating a dict yields its keys.  Iterating a str yields its characters,
\* none of which is a genre.  Iterating None, a number or a bool raises, and
\* the except clause returns [].
validate_genres(parsed_genres) ==
  CASE parsed_genres.kind = "list" ->
         SelectSeq(parsed_genres.val,
                   LAMBDA g : g.kind = "str" /\ g.val \in ValidGenreSet)
    [] parsed_genres.kind = "dict" ->
         LET kept == SelectSeq(parsed_genres.val,
                               LAMBDA it : it.key \in ValidGenreSet)
         IN [i \in 1..Len(kept) |-> JStr(kept[i].key)]
    [] OTHER -> <<>>

----------------------------------------------------------------------------
(* parse_query *)

\* What gemini.generate_content(prompt) followed by response.text and
\* json.loads delivers: the call (or .text) raises, or the text is no JSON
\* (kind "invalid"), or it is a JSON value.
ReplyRaise == [kind |-> "raise"]
ReplyText(j) == [kind |-> "text", json |-> j]
JInvalid == [kind |-> "invalid"]
JObject(g, s, m, b, r) ==
  [kind |-> "object", genres |-> g, similar_to |-> s, min_episodes |-> m,
   binge |-> b, request_count |-> r]

\* A parameter dict: the five keys the code reads, JAbsent when missing.
Params(g, s, m, b, r) ==
  [genres |-> g, similar_to |-> s, min_episodes |-> m, binge |-> b,
   request_count |-> r]

\* The except clause's result: {"genres": [], "request_count": 3}.
DefaultParams == Params(JList(<<>>), JAbsent, JAbsent, JAbsent, JInt(3))

\* Lines 98-102.  [ok, val]: ok is FALSE where g.strip() raises on an item
\* that is no str.
FormatGenres(g) ==
  CASE g.kind = "str" ->
         [ok |-> TRUE, val |-> JList(<<JStr(Capitalize(Strip(g.val)))>>)]
    [] g.kind = "list" ->
         IF \A i \in 1..Len(g.val) : g.val[i].kind = "str"
         THEN [ok |-> TRUE,
               val |-> JList(
                 [i \in 1..Len(SelectSeq(g.val, LAMBDA x : Strip(x.val) # <<>>)) |->
                    JStr(Capitalize(Strip(
                      SelectSeq(g.val, LAMBDA x : Strip(x.val) # <<>>)[i].val)))])]
         ELSE [ok |-> FALSE, val |-> g]
    [] OTHER -> [ok |-> TRUE, val |-> g]

\* Line 105: min(int(parsed.get('request_count', 3)), 10).
ClampRequestCount(n) == Min2(n, 10)

parse_query(reply) ==
  IF reply.kind = "raise" THEN DefaultParams
  ELSE IF reply.json.kind # "object" THEN DefaultParams
  ELSE LET parsed == reply.json
           g == FormatGenres(parsed.genres)
           n == PyInt(Get(parsed.request_count, JInt(3)))
       IN IF ~g.ok \/ ~n.ok THEN DefaultParams
          ELSE Params(g.val, parsed.similar_to, parsed.min_episodes,
                      parsed.binge, JInt(ClampRequestCount(n.val)))

----------------------------------------------------------------------------
(* build_anilist_query *)

TRENDING_DESC == "TRENDING_DESC"
POPULARITY_DESC == "POPULARITY_DESC"
SCORE_DESC == "SCORE_DESC"

\* The sort policy with binge deciding first (popularity when binge or when
\* no anchor is given).
SortOrderBingeFirst(p) ==
  IF Truthy(p.binge) \/ ~Truthy(p.similar_to) THEN POPULARITY_DESC ELSE SCORE_DESC

\* Lines 74-76.
SortOrder(p) ==
  IF ~Truthy(p.similar_to) THEN TRENDING_DESC
  ELSE IF Truthy(p.binge) THEN POPULARITY_DESC ELSE SCORE_DESC

\* Line 46: min(params.get('request_count', 3), 10); raises on None, str,
\* list, dict.  min returns its first argument unless the second is smaller.
PerPage(p) ==
  LET v == Get(p.request_count, JInt(3))
  IN CASE v.kind = "int" -> [ok |-> TRUE, val |-> JInt(Min2(v.val, 10))]
       [] v.kind = "float" ->
            [ok |-> TRUE, val |-> IF 100 < v.val THEN JInt(10) ELSE v]
       [] v.kind = "bool" -> [ok |-> TRUE, val |-> v]
       [] OTHER -> [ok |-> FALSE, val |-> v]

BuildRaised == [ok |-> FALSE]

\* [ok |-> FALSE] where the function raises; else the page size written into
\* the query text and the variables.
build_anilist_query(p) ==
  LET per == PerPage(p)
      eps == PyInt(Get(p.min_episodes, JInt(0)))
  IN IF ~per.ok \/ ~eps.ok THEN BuildRaised
     ELSE [ok |-> TRUE,
           perPage |-> per.val,
           search |-> IF Truthy(Get(p.similar_to, JStr(<<>>)))
                      THEN p.similar_to ELSE JNull,
           genre_in |-> validate_genres(Get(p.genres, JList(<<>>))),
           minEpisodes |-> eps.val,
           sort |-> SortOrder(p)]

----------------------------------------------------------------------------
(* The normalisation loop of webhook, lines 180-188 *)

Untitled == JStr(<<85,110,116,105,116,108,101,100>>)   \* "Untitled"
NotAvailable == JStr(<<78,47,65>>)   \* "N/A"
DefaultUrl == JStr(<<104,116,116,112,115,58,47,47,97,110,105,108,105,115,116,46,99,111>>)   \* "https://anilist.co"

JTitle(e, r) == [kind |-> "object", english |-> e, romaji |-> r]
\* A media record (a dict).  An item of the media list that is no dict is
\* the JSON value itself.
Media(t, s, g, u) ==
  [kind |-> "object", title |-> t, averageScore |-> s, genres |-> g, siteUrl |-> u]

\* media['title']['english'] or media['title']['romaji'] or "Untitled".
\* Subscripting raises on a missing key, on None and on anything that is no
\* dict; romaji is only read when english is falsy.
ResolveTitle(media) ==
  IF media.kind # "object" THEN [ok |-> FALSE, val |-> Untitled]
  ELSE
  LET t == media.title
  IN IF t.kind # "object" THEN [ok |-> FALSE, val |-> Untitled]
     ELSE IF t.english.kind = "absent" THEN [ok |-> FALSE, val |-> Untitled]
     ELSE IF Truthy(t.english) THEN [ok |-> TRUE, val |-> t.english]
     ELSE IF t.romaji.kind = "absent" THEN [ok |-> FALSE, val |-> Untitled]
     ELSE IF Truthy(t.romaji) THEN [ok |-> TRUE, val |-> t.romaji]
     ELSE [ok |-> TRUE, val |-> Untitled]

RECURSIVE JoinWith(_, _)
\* sep.join(parts) on character sequences.
JoinWith(sep, parts) ==
  IF parts = <<>> THEN <<>>
  ELSE IF Len(parts) = 1 THEN parts[1]
  ELSE parts[1] \o sep \o JoinWith(sep, Tail(parts))

\* ", ".join(media.get('genres', [])[:3]).  The slice comes first: of a list
\* its first three items, which must all be str for join; of a str its first
\* three characters.  Slicing None, a number, a bool or a dict raises.
JoinGenres(media) ==
  IF media.kind # "object" THEN [ok |-> FALSE, val |-> JStr(<<>>)]
  ELSE
  LET g == Get(media.genres, JList(<<>>))
      first3 == SubSeq(g.val, 1, Min2(3, Len(g.val)))
  IN CASE g.kind = "list" ->
            IF \A i \in 1..Len(first3) : first3[i].kind = "str"
            THEN [ok |-> TRUE,
                  val |-> JStr(JoinWith(<<44, 32>>,   \* ", "
                                        [i \in 1..Len(first3) |-> first3[i].val]))]
            ELSE [ok |-> FALSE, val |-> JStr(<<>>)]
       [] g.kind = "str" ->
            [ok |-> TRUE,
             val |-> JStr(JoinWith(<<44, 32>>,   \* ", "
                                   [i \in 1..Len(first3) |-> <<first3[i]>>]))]
       [] OTHER -> [ok |-> FALSE, val |-> JStr(<<>>)]

\* media.get('averageScore', 'N/A'): the default is used for a missing key only.
ScoreOf(media) == Get(media.averageScore, NotAvailable)

UrlOf(media) == Get(media.siteUrl, DefaultUrl)

NormalizeOne(media) ==
  [title |-> ResolveTitle(media).val,
   score |-> ScoreOf(media),
   genres |-> JoinGenres(media).val,
   url |-> UrlOf(media)]

RaisesOn(media) == ~ResolveTitle(media).ok \/ ~JoinGenres(media).ok

\* for media in media_items: the items a value yields ([ok, items]).  A list
\* yields its items, a str its characters, a dict its keys; None, a number
\* or a bool is not iterable.
IterItems(v) ==
  CASE v.kind = "list" -> [ok |-> TRUE, items |-> v.val]
    [] v.kind = "str" ->
         [ok |-> TRUE, items |-> [i \in 1..Len(v.val) |-> JStr(<<v.val[i]>>)]]
    [] v.kind = "dict" ->
         [ok |-> TRUE, items |-> [i \in 1..Len(v.val) |-> JStr(v.val[i].key)]]
    [] OTHER -> [ok |-> FALSE, items |-> <<>>]

\* [ok |-> FALSE] where the loop raises; else the recommendations list.
Normalize(media_items) ==
  IF \E i \in 1..Len(media_items) : RaisesOn(media_items[i])
  THEN [ok |-> FALSE, recs |-> <<>>]
  ELSE [ok |-> TRUE,
        recs |-> [i \in 1..Len(media_items) |-> NormalizeOne(media_items[i])]]

----------------------------------------------------------------------------
(* generate_nikko_response *)

FixedText(s) == [kind |-> "fixed", val |-> s]
ModelText(cs) == [kind |-> "model", val |-> cs]
ListingText(label, lines) == [kind |-> "listing", label |-> label, lines |-> lines]

NoResultsTexts ==
  << FixedText("Dry spell? Nothing matches your criteria"),
     FixedText("Zero results? Must be an anime void") >>
TopPicksLabel == "Top Picks:"

\* Whether a text is the empty string.
IsEmptyText(t) ==
  CASE t.kind = "fixed" -> t.val = ""
    [] t.kind = "model" -> t.val = <<>>
    [] OTHER -> FALSE

\* The check of line 114 left out.
NeedsModelAlways(recs) == TRUE

\* Line 114: the model is asked only for a non-empty list.
NeedsModel(recs) == recs # <<>>

\* The lines numbered from 0, as enumerate counts them.
RecsFormattedZeroBased(recs) ==
  [i \in 1..Len(recs) |->
     [index |-> i - 1, title |-> recs[i].title, score |-> recs[i].score]]

\* Lines 120-123: f"{i+1}. {r['title']} ({r['score']}/100)", one line per
\* recommendation; a line is kept as the three values the format string joins.
RecsFormatted(recs) ==
  [i \in 1..Len(recs) |->
     [index |-> i, title |-> recs[i].title, score |-> recs[i].score]]

\* lm is what gemini.generate_content(prompt) delivers (ReplyRaise, or
\* [kind |-> "text", text |-> characters]); pick is random.choice's draw.
\* [text, lm_called].
generate_nikko_response(recs, lm, pick) ==
  IF ~NeedsModel(recs)
  THEN [text |-> NoResultsTexts[pick], lm_called |-> FALSE]
  ELSE IF lm.kind = "raise"
       THEN [text |-> ListingText(TopPicksLabel, RecsFormatted(recs)),
             lm_called |-> TRUE]
       ELSE [text |-> ModelText(Strip(lm.text)), lm_called |-> TRUE]

----------------------------------------------------------------------------
(* webhook and the cache decorator *)

\* An inbound request: the URL's query-string arguments and the posted body.
\* The body is no JSON, or a JSON object whose queryResult.queryText is
\* missing or a string.
Request(a, b) == [args |-> a, body |-> b]
BodyNotJson == [kind |-> "not_json"]
BodyJson(q) == [kind |-> "json", queryText |-> q]
NoRequest == Request(<<>>, [kind |-> "none"])

\* What requests.post delivers: it raises (timeout after 10 s, transport
\* error), or a response with a status code and a body.  A body is no JSON
\* (kind "invalid") or the object {"data": d}.
HttpRaise == [kind |-> "raise"]
HttpResponse(code, body) == [kind |-> "http", status |-> code, body |-> body]
BodyInvalid == [kind |-> "invalid"]
BodyData(d) == [kind |-> "object", data |-> d]
JPageHolder(p) == [kind |-> "object", Page |-> p]
JMediaHolder(m) == [kind |-> "object", media |-> m]
NoReply == [kind |-> "none"]

\* Line 174: response.json().get('data', {}).get('Page', {}).get('media', []).
\* ok is FALSE where json() or a .get on None raises.
MediaItems(body) ==
  IF body.kind # "object" THEN [ok |-> FALSE, val |-> JNull]
  ELSE IF body.data.kind = "absent" THEN [ok |-> TRUE, val |-> JList(<<>>)]
  ELSE IF body.data.kind # "object" THEN [ok |-> FALSE, val |-> JNull]
  ELSE IF body.data.Page.kind = "absent" THEN [ok |-> TRUE, val |-> JList(<<>>)]
  ELSE IF body.data.Page.kind # "object" THEN [ok |-> FALSE, val |-> JNull]
  ELSE [ok |-> TRUE, val |-> Get(body.data.Page.media, JList(<<>>))]

\* The response envelope: fulfillmentText, the text of the first message when
\* it differs from it (note), and the payload of the success envelope.
Envelope(text, note, has_payload, recs, count) ==
  [fulfillmentText |-> text, note |-> note, has_payload |-> has_payload,
   recommendations |-> recs, requested_count |-> count]

InvalidQueryResponse ==
  Envelope(FixedText("Try harder with that query!"), "Invalid query", FALSE, <<>>, JNull)
ApiErrorResponse ==
  Envelope(FixedText("AniList glitched! Try different terms"), "API Error", FALSE, <<>>, JNull)
ServerErrorResponse ==
  Envelope(FixedText("System crashed...too much sass overload"), "Server error", FALSE, <<>>, JNull)
SuccessResponse(text, recs, count) == Envelope(text, "", TRUE, recs, count)
NoResponse == Envelope(FixedText("none"), "none", FALSE, <<>>, JNull)

\* flask_caching's key under query_string=True: request.path and a hash of
\* the sorted URL arguments.  The posted body is not read.
CacheKey(req) == <<"/webhook", req.args>>

NoEntry == [kind |-> "none"]
CacheEntry(rv, req) == [kind |-> "entry", rv |-> rv, computed_for |-> req]

\* The caller posts to the one configured webhook URL, which carries no
\* arguments.
UrlArgs == {<<>>}
QueryTexts == {<<>>, <<13>>, <<97>>, <<98, 13, 10>>}   \* "\r", "a", "b\r\n"
Requests ==
  {Request(a, b) : a \in UrlArgs,
                   b \in {BodyNotJson, BodyJson(JAbsent)}
                         \cup {BodyJson(JStr(q)) : q \in QueryTexts}}
CacheKeys == {CacheKey(r) : r \in Requests}

\* Lines 142-143: [ok, val]; ok is FALSE where get_json() raises, or .strip()
\* does on a queryText that is no str.
UserQuery(req) ==
  IF req.body.kind # "json" THEN [ok |-> FALSE, val |-> <<>>]
  ELSE IF Get(req.body.queryText, JStr(<<>>)).kind # "str"
  THEN [ok |-> FALSE, val |-> <<>>]
  ELSE [ok |-> TRUE, val |-> Strip(Get(req.body.queryText, JStr(<<>>)).val)]

\* Flask serves each request on a thread of its own (app.run, line 218), so
\* requests are in flight together: request i is the i-th one received.
Ids == 1..MaxRequests

HookInit ==
  /\ n_requests = 0
  /\ cache = [k \in CacheKeys |-> NoEntry]
  /\ pc = [i \in Ids |-> "new"]
  /\ request = [i \in Ids |-> NoRequest]
  /\ user_query = [i \in Ids |-> <<>>]
  /\ params = [i \in Ids |-> DefaultParams]
  /\ recommendations = [i \in Ids |-> <<>>]
  /\ response = [i \in Ids |-> NoResponse]
  /\ from_cache = [i \in Ids |-> FALSE]
  /\ origin = [i \in Ids |-> NoRequest]
  /\ lm_calls = [i \in Ids |-> <<>>]
  /\ anilist_calls = [i \in Ids |-> 0]
  /\ anilist_reply = [i \in Ids |-> NoReply]

\* The locals of request i's call of webhook.
Locals(i, q, p, recs) ==
  /\ user_query' = [user_query EXCEPT ![i] = q]
  /\ params' = [params EXCEPT ![i] = p]
  /\ recommendations' = [recommendations EXCEPT ![i] = recs]

\* webhook returns rv to request i: the decorator stores it under the
\* request's key (timeout=3600), overwriting what another request stored
\* there, and the request is answered.  The call's locals are gone.
Return(i, rv) ==
  /\ response' = [response EXCEPT ![i] = rv]
  /\ from_cache' = [from_cache EXCEPT ![i] = FALSE]
  /\ origin' = [origin EXCEPT ![i] = request'[i]]
  /\ cache' = [cache EXCEPT ![CacheKey(request'[i])] = CacheEntry(rv, request'[i])]
  /\ pc' = [pc EXCEPT ![i] = "done"]
  /\ Locals(i, <<>>, DefaultParams, <<>>)

\* A request arrives, whatever the requests before it are doing.  The
\* decorator answers it from the cache when the key is present; otherwise
\* webhook runs up to its first outbound call.
Receive(req) ==
  LET i == n_requests + 1
  IN /\ n_requests < MaxRequests
     /\ n_requests' = i
     /\ request' = [request EXCEPT ![i] = req]
     /\ UNCHANGED <<unit, arg, ret, anilist_calls, anilist_reply>>
     /\ IF cache[CacheKey(req)] # NoEntry
        THEN /\ response' = [response EXCEPT ![i] = cache[CacheKey(req)].rv]
             /\ from_cache' = [from_cache EXCEPT ![i] = TRUE]
             /\ origin' = [origin EXCEPT ![i] = cache[CacheKey(req)].computed_for]
             /\ pc' = [pc EXCEPT ![i] = "done"]
             /\ UNCHANGED <<cache, lm_calls, user_query, params, recommendations>>
        ELSE IF ~UserQuery(req).ok
        THEN /\ Return(i, ServerErrorResponse)
             /\ UNCHANGED lm_calls
        ELSE IF UserQuery(req).val = <<>>
        THEN /\ Return(i, InvalidQueryResponse)
             /\ UNCHANGED lm_calls
        ELSE /\ Locals(i, UserQuery(req).val, DefaultParams, <<>>)
             /\ lm_calls' = [lm_calls EXCEPT ![i] = <<"extraction">>]
             /\ pc' = [pc EXCEPT ![i] = "extract"]
             /\ UNCHANGED <<response, from_cache, origin, cache>>

\* Request i's extraction model call returns or raises: parse_query
\* finishes, build_anilist_query runs and requests.post is issued.
ExtractReply(i, reply) ==
  /\ pc[i] = "extract"
  /\ UNCHANGED <<unit, arg, ret, n_requests, request, lm_calls, anilist_reply>>
  /\ LET p == parse_query(reply)
     IN IF ~build_anilist_query(p).ok
        THEN /\ Return(i, ServerErrorResponse)
             /\ UNCHANGED anilist_calls
        ELSE /\ Locals(i, user_query[i], p, <<>>)
             /\ anilist_calls' = [anilist_calls EXCEPT ![i] = @ + 1]
             /\ pc' = [pc EXCEPT ![i] = "anilist"]
             /\ UNCHANGED <<response, from_cache, origin, cache>>

\* Request i's requests.post returns or raises: status check, normalisation,
\* and generate_nikko_response up to its model call.
AnilistReply(i, m, pick) ==
  /\ pc[i] = "anilist"
  /\ anilist_reply' = [anilist_reply EXCEPT ![i] = m]
  /\ UNCHANGED <<unit, arg, ret, n_requests, request, anilist_calls>>
  /\ IF m.kind = "raise"
     THEN /\ Return(i, ServerErrorResponse)
          /\ UNCHANGED lm_calls
     ELSE IF m.status # 200
     THEN /\ Return(i, ApiErrorResponse)
          /\ UNCHANGED lm_calls
     ELSE IF \/ ~MediaItems(m.body).ok
             \/ ~IterItems(MediaItems(m.body).val).ok
             \/ ~Normalize(IterItems(MediaItems(m.body).val).items).ok
     THEN /\ Return(i, ServerErrorResponse)
          /\ UNCHANGED lm_calls
     ELSE LET recs == Normalize(IterItems(MediaItems(m.body).val).items).recs
              out == generate_nikko_response(recs, ReplyRaise, pick)
          IN IF out.lm_called
             THEN /\ Locals(i, user_query[i], params[i], recs)
                  /\ lm_calls' = [lm_calls EXCEPT ![i] = Append(@, "synthesis")]
                  /\ pc' = [pc EXCEPT ![i] = "synth"]
                  /\ UNCHANGED <<response, from_cache, origin, cache>>
             ELSE /\ Return(i, SuccessResponse(out.text, recs, params[i].request_count))
                  /\ UNCHANGED lm_calls

\* Request i's synthesis model call returns or raises:
\* generate_nikko_response finishes and the success envelope is returned.
SynthReply(i, lm) ==
  /\ pc[i] = "synth"
  /\ UNCHANGED <<unit, arg, ret, n_requests, request, lm_calls, anilist_calls,
                 anilist_reply>>
  /\ Return(i, SuccessResponse(generate_nikko_response(recommendations[i], lm, 1).text,
                               recommendations[i], params[i].request_count))

\* A cache entry's timeout (3600 s) elapses.
CacheExpire(k) ==
  /\ cache[k] # NoEntry
  /\ cache' = [cache EXCEPT ![k] = NoEntry]
  /\ UNCHANGED <<unit, arg, ret, pc, n_requests, request, user_query, params,
                 recommendations, response, from_cache, origin, lm_calls,
                 anilist_calls, anilist_reply>>

----------------------------------------------------------------------------
(* Inputs *)

Action == <<65,99,116,105,111,110>>   \* "Action"
GenreTokens ==
  { <<97,99,116,105,111,110>>,   \* "action"
    <<13,68,82,65,77,65,32>>,   \* "\rDRAMA "
    <<83,99,105,45,70,105>>,   \* "Sci-Fi"
    <<73,115,101,107,97,105>>,   \* "Isekai"
    <<233,99,111,108,101>>,   \* U+00E9 "cole"
    <<927,916,927,931>>,   \* U+039F U+0394 U+039F U+03A3 (a word ending in capital sigma)
    <<223,73>>,   \* U+00DF "I"
    <<12>> }   \* "\f"
GenreItems == {JStr(g) : g \in GenreTokens} \cup {JInt(7)}
ReplyGenres ==
  {JAbsent, JNull, JInt(7), JDict(<<>>),
   JDict(<<Item(<<120>>, JInt(0)), Item(Action, JInt(1))>>)}   \* "x"
    \cup {JStr(g) : g \in GenreTokens}
    \cup {JList(xs) : xs \in SeqUpTo(GenreItems, MaxGenres)}
ReplyCounts ==
  {JAbsent, JNull, JInt(-2), JInt(0), JInt(1), JInt(3), JInt(10), JInt(11),
   JFloat(27), JFloat(-27), JFloat(100), JBool(TRUE), JDict(<<>>),
   JStr(<<53>>), JStr(<<49,95,48>>), JStr(<<49,95,95,48>>),   \* "5", "1_0", "1__0"
   JStr(<<95,49>>), JStr(<<13,43,55,10>>), JStr(<<45,50>>),   \* "_1", "\r+7\n", "-2"
   JStr(<<50,46,55>>), JStr(<<109,97,110,121>>), JStr(<<>>),
   JStr(<<53,28>>), JStr(<<31,53>>),   \* "5" U+001C, U+001F "5"
   JStr(<<1635>>), JStr(<<160,65297,95,1632>>)}   \* U+0663, U+00A0 U+FF11 "_" U+0660   \* "2.7", "many"
Anchor == JStr(<<78,97,114,117,116,111>>)   \* "Naruto"

\* Model replies to the extraction prompt.
ModelReplies ==
  {ReplyRaise, ReplyText(JInvalid), ReplyText(JNull), ReplyText(JInt(3)),
   ReplyText(JList(<<>>)), ReplyText(JStr(<<103,101,110,114,101,115>>))}   \* "genres"
    \cup {ReplyText(JObject(g, s, m, b, r)) :
            g \in ReplyGenres, s \in {JAbsent, Anchor}, m \in {JAbsent, JNull},
            b \in {JAbsent, JBool(TRUE)}, r \in ReplyCounts}

\* The replies the webhook specification draws from.
PipelineReplies ==
  {ReplyRaise,
   ReplyText(JObject(JList(<<JStr(<<97,99,116,105,111,110>>)>>), Anchor,   \* "action"
                     JAbsent, JBool(TRUE), JStr(<<48,95,51,13>>))),   \* "0_3\r"
   ReplyText(JObject(JAbsent, JAbsent, JNull, JAbsent, JInt(3)))}

\* Model replies to the synthesis prompt: the call raises, or response.text.
SynthText(cs) == [kind |-> "text", text |-> cs]
SynthReplies ==
  {ReplyRaise, SynthText(<<13,10>>), SynthText(<<10,79,107,13,10>>)}   \* "\r\n", "\nOk\r\n"

ParamObjects ==
  {Params(g, s, m, b, r) :
     g \in {JAbsent, JNull, JList(<<>>), JStr(Action),
            JDict(<<Item(<<120>>, JInt(0)), Item(Action, JInt(1))>>),   \* "x"
            JList(<<JStr(Action), JStr(<<73,115,101,107,97,105>>)>>)},   \* "Isekai"
     s \in {JAbsent, JNull, JStr(<<>>), JDict(<<>>), JInt(0), Anchor, JInt(5),
            JList(<<Anchor>>)},
     m \in {JAbsent, JNull, JInt(12), JStr(<<49,95,50>>),   \* "1_2"
            JStr(<<49,50,28>>), JStr(<<1633,1634>>)},   \* "12" U+001C, U+0661 U+0662
     b \in {JAbsent, JNull, JBool(FALSE), JBool(TRUE), JInt(0), JInt(1),
            JStr(<<102,97,108,115,101>>), JList(<<>>)},   \* "false"
     r \in {JAbsent, JNull, JInt(0), JInt(3), JInt(25), JFloat(100), JFloat(101),
            JBool(TRUE)}}

English == JStr(<<69>>)   \* "E"
Romaji == JStr(<<82>>)   \* "R"
FourGenres == JList(<<JStr(<<65>>), JStr(<<66>>), JStr(<<67>>), JStr(<<68>>)>>)   \* "A", "B", "C", "D"
ThreeGenresAndNumber == JList(<<JStr(<<65>>), JStr(<<66>>), JStr(<<67>>), JInt(7)>>)   \* "A", "B", "C"
SiteUrl == JStr(<<117>>)   \* "u"
RawTitles ==
  {JAbsent, JNull}
    \cup {JTitle(e, r) : e \in {JAbsent, JNull, JStr(<<>>), JDict(<<>>), English},
                         r \in {JAbsent, JNull, JStr(<<>>), Romaji}}
RawGenres ==
  {JAbsent, JNull, FourGenres, ThreeGenresAndNumber, JList(<<JInt(7)>>),
   JStr(Action), JStr(<<>>), JDict(<<>>)}
AllMedia ==
  {Media(t, sc, g, u) : t \in RawTitles, sc \in {JAbsent, JNull, JInt(85)},
                        g \in RawGenres, u \in {JAbsent, SiteUrl}}
    \cup {JStr(<<120>>), JNull, JInt(7)}   \* "x"
CoreMedia ==
  {Media(JTitle(English, Romaji), JInt(85), FourGenres, SiteUrl),
   Media(JTitle(JNull, Romaji), JNull, JAbsent, JAbsent),
   Media(JTitle(JStr(<<>>), JNull), JAbsent, JStr(Action), SiteUrl),
   Media(JNull, JInt(85), FourGenres, SiteUrl)}
MediaLists == SeqUpTo(CoreMedia, MaxMedia) \cup {<<m>> : m \in AllMedia}

\* Well-formed recommendations, as the normalisation loop builds them.
Recs ==
  {[title |-> t, score |-> sc, genres |-> JStr(<<>>), url |-> SiteUrl] :
     t \in {English, Romaji, Untitled}, sc \in {JInt(85), JNull, NotAvailable}}
RecLists == SeqUpTo(Recs, MaxRecs)

\* The metadata replies the webhook specification draws from.
GoodMedia == Media(JTitle(English, Romaji), JInt(85), FourGenres, SiteUrl)
RomajiMedia == Media(JTitle(JNull, Romaji), JNull, JAbsent, JAbsent)
PipelineMedia ==
  {JList(<<>>), JList(<<RomajiMedia, GoodMedia>>),
   JList(<<Media(JNull, JInt(85), FourGenres, SiteUrl)>>)}
AnilistReplies ==
  {HttpRaise, HttpResponse(500, BodyInvalid), HttpResponse(200, BodyInvalid),
   HttpResponse(200, BodyData(JAbsent))}
    \cup {HttpResponse(200, BodyData(JPageHolder(JMediaHolder(ms)))) :
            ms \in PipelineMedia}

----------------------------------------------------------------------------
(* Specifications *)

NotCalled == [kind |-> "not_called"]
Returned(v) == [kind |-> "returned", val |-> v]

FnIdle == unit = "webhook" /\ arg = NotCalled /\ ret = NotCalled

Init == FnIdle /\ HookInit

Next ==
  \/ \E req \in Requests : Receive(req)
  \/ \E i \in Ids, reply \in PipelineReplies : ExtractReply(i, reply)
  \/ \E i \in Ids, m \in AnilistReplies, pick \in 1..Len(NoResultsTexts) :
       AnilistReply(i, m, pick)
  \/ \E i \in Ids, lm \in SynthReplies : SynthReply(i, lm)
  \/ \E k \in CacheKeys : CacheExpire(k)

\* The webhook behind its cache.
Spec == Init /\ [][Next]_vars

\* requests.post carries timeout=10, so it returns or raises; the calls of
\* gemini.generate_content carry no timeout, and nothing makes them return.
LiveSpec ==
  Spec /\ \A i \in Ids :
            WF_vars(\E m \in AnilistReplies, pick \in 1..Len(NoResultsTexts) :
                       AnilistReply(i, m, pick))

CallParseQuery ==
  /\ unit = "parse_query" /\ ret = NotCalled
  /\ ret' = Returned(parse_query(arg))
  /\ UNCHANGED <<unit, arg, hookVars>>

InitParse == unit = "parse_query" /\ arg \in ModelReplies /\ ret = NotCalled /\ HookInit
SpecParse == InitParse /\ [][CallParseQuery]_vars

CallBuild ==
  /\ unit = "build_anilist_query" /\ ret = NotCalled
  /\ ret' = Returned(build_anilist_query(arg))
  /\ UNCHANGED <<unit, arg, hookVars>>

InitBuild == unit = "build_anilist_query" /\ arg \in ParamObjects /\ ret = NotCalled /\ HookInit
SpecBuild == InitBuild /\ [][CallBuild]_vars

CallNormalize ==
  /\ unit = "normalize" /\ ret = NotCalled
  /\ ret' = Returned(Normalize(arg))
  /\ UNCHANGED <<unit, arg, hookVars>>

InitNormalize == unit = "normalize" /\ arg \in MediaLists /\ ret = NotCalled /\ HookInit
SpecNormalize == InitNormalize /\ [][CallNormalize]_vars

CallGenerate ==
  /\ unit = "generate_nikko_response" /\ ret = NotCalled
  /\ ret' = Returned(generate_nikko_response(arg.recs, arg.lm, arg.pick))
  /\ UNCHANGED <<unit, arg, hookVars>>

InitGenerate ==
  /\ unit = "generate_nikko_response"
  /\ arg \in [recs : RecLists, lm : SynthReplies, pick : 1..Len(NoResultsTexts)]
  /\ ret = NotCalled
  /\ HookInit
SpecGenerate == InitGenerate /\ [][CallGenerate]_vars

----------------------------------------------------------------------------
(* Claims *)

\* The raw query text a request carried ([ok, val]).
RawQueryText(req) ==
  IF req.body.kind = "json" /\ req.body.queryText.kind = "str"
  THEN [ok |-> TRUE, val |-> req.body.queryText.val]
  ELSE [ok |-> FALSE, val |-> <<>>]

\* The response is the fixed envelope e.
IsFixedResponse(r, e) ==
  /\ r.note = e.note
  /\ r.fulfillmentText.kind = "fixed"
  /\ r.fulfillmentText.val = e.fulfillmentText.val
  /\ ~r.has_payload

Answered(i) == pc[i] = "done"

\* C1: every request with a non-empty query text is answered with an envelope
\* whose fulfillmentText is a non-empty string, whatever the three outbound
\* calls deliver.
C1_NonEmptyText ==
  \A i \in Ids :
    (/\ Answered(i) /\ RawQueryText(request[i]).ok
     /\ Strip(RawQueryText(request[i]).val) # <<>>)
      => ~IsEmptyText(response[i].fulfillmentText)

\* C2: parse_query returns parameters whose request_count is an integer in
\* 1..10 and whose genres are all members of the 13-genre allow-list.
C2_ParseQueryContract ==
  (unit = "parse_query" /\ ret.kind = "returned") =>
    /\ ret.val.request_count.kind = "int"
    /\ ret.val.request_count.val \in 1..10
    /\ ret.val.genres.kind = "list" =>
         \A i \in 1..Len(ret.val.genres.val) :
           /\ ret.val.genres.val[i].kind = "str"
           /\ ret.val.genres.val[i].val \in ValidGenreSet

\* An anchor is given: params.get("similar_to") is truthy (line 74).
HasAnchor(p) == Truthy(p.similar_to)
\* params.get("binge") is truthy (line 75).
BingeOn(p) == Truthy(p.binge)

\* C3 as stated: for every parameter object the sort is set, to
\* popularity-descending when binge is true or no anchor is given, and to
\* score-descending otherwise.
C3_SortAsClaimed ==
  (unit = "build_anilist_query" /\ ret.kind = "returned") =>
    /\ ret.val.ok
    /\ ret.val.sort = IF BingeOn(arg) \/ ~HasAnchor(arg)
                      THEN POPULARITY_DESC ELSE SCORE_DESC

\* request_count is present and no number, or min_episodes is present and
\* int() rejects it.
RaisesAsStated(p) ==
  \/ p.request_count.kind \notin {"absent", "int", "float", "bool"}
  \/ p.min_episodes.kind # "absent" /\ ~PyInt(p.min_episodes).ok

\* C3 amended: build_anilist_query raises exactly when request_count is
\* present and no number or min_episodes is present and rejected by int();
\* in every other case the sort is trending-descending when similar_to is
\* falsy (whatever binge is), popularity-descending when similar_to and
\* binge are truthy, and score-descending when similar_to is truthy and
\* binge is falsy.
C3_SortPolicy ==
  (unit = "build_anilist_query" /\ ret.kind = "returned") =>
    /\ ret.val.ok <=> ~RaisesAsStated(arg)
    /\ ret.val.ok =>
         /\ ret.val.sort \in {TRENDING_DESC, POPULARITY_DESC, SCORE_DESC}
         /\ ~HasAnchor(arg) => ret.val.sort = TRENDING_DESC
         /\ HasAnchor(arg) /\ BingeOn(arg) => ret.val.sort = POPULARITY_DESC
         /\ HasAnchor(arg) /\ ~BingeOn(arg) => ret.val.sort = SCORE_DESC

\* build_anilist_query has returned for parameters with binge true and no anchor.
C3_Witness ==
  /\ unit = "build_anilist_query" /\ ret.kind = "returned" /\ ret.val.ok
  /\ BingeOn(arg) /\ ~HasAnchor(arg)
  /\ ret.val.sort = TRENDING_DESC

\* C4: with a non-empty list and a failed model call, generate_nikko_response
\* returns the fixed label followed by one line per recommendation,
\* "{index}. {title} ({score}/100)", in input order with indices 1..n.
C4_FallbackListing ==
  (/\ unit = "generate_nikko_response" /\ ret.kind = "returned"
   /\ arg.recs # <<>> /\ arg.lm.kind = "raise") =>
    /\ ret.val.text.kind = "listing"
    /\ ret.val.text.label = TopPicksLabel
    /\ Len(ret.val.text.lines) = Len(arg.recs)
    /\ \A i \in 1..Len(arg.recs) :
         /\ ret.val.text.lines[i].index = i
         /\ ret.val.text.lines[i].title = arg.recs[i].title
         /\ ret.val.text.lines[i].score = arg.recs[i].score

\* The fallback listing has been returned for two recommendations with
\* different titles.
C4_Witness ==
  /\ unit = "generate_nikko_response" /\ ret.kind = "returned"
  /\ arg.lm.kind = "raise" /\ Len(arg.recs) = 2
  /\ arg.recs[1].title # arg.recs[2].title
  /\ ret.val.text.kind = "listing"

\* The metadata service answered 200 with zero media records: the media
\* value (an empty list where data, Page or media is missing) yields no item.
ZeroMedia(m) ==
  /\ m.kind = "http" /\ m.status = 200
  /\ MediaItems(m.body).ok
  /\ IterItems(MediaItems(m.body).val).ok
  /\ IterItems(MediaItems(m.body).val).items = <<>>

IsNoResultsText(t) ==
  t.kind = "fixed" /\ \E i \in 1..Len(NoResultsTexts) : t.val = NoResultsTexts[i].val

\* C5: with an empty recommendation list the reply is one of the fixed
\* "no results" strings and the model is not called for it: a request whose
\* metadata reply holds zero media records makes the extraction call only,
\* and its payload's recommendation list is empty.
C5_EmptyNoModelCall ==
  \A i \in Ids :
    (pc[i] # "anilist" /\ ZeroMedia(anilist_reply[i])) =>
      /\ pc[i] = "done"
      /\ lm_calls[i] = <<"extraction">>
      /\ IsNoResultsText(response[i].fulfillmentText)
      /\ response[i].has_payload
      /\ response[i].recommendations = <<>>

\* A request whose metadata reply held zero media records has been answered
\* while another request was waiting for its synthesis call.
C5_Witness ==
  \E i \in Ids, j \in Ids :
    /\ Answered(i) /\ ~from_cache[i] /\ ZeroMedia(anilist_reply[i])
    /\ IsNoResultsText(response[i].fulfillmentText)
    /\ pc[j] = "synth"

\* C6: a request whose query text is empty or whitespace-only is answered
\* with the input-error guidance, and no model or metadata call is made.
C6_EmptyQueryShortCircuits ==
  \A i \in Ids :
    (/\ Answered(i) /\ RawQueryText(request[i]).ok
     /\ Strip(RawQueryText(request[i]).val) = <<>>) =>
      /\ IsFixedResponse(response[i], InvalidQueryResponse)
      /\ lm_calls[i] = <<>>
      /\ anilist_calls[i] = 0

\* The title the precedence of C7 gives a raw record.
ClaimedTitle(media) ==
  LET t == media.title
  IN IF t.kind = "object" /\ t.english.kind = "str" /\ t.english.val # <<>>
     THEN t.english
     ELSE IF t.kind = "object" /\ t.romaji.kind = "str" /\ t.romaji.val # <<>>
     THEN t.romaji
     ELSE Untitled

\* The record is a dict whose genres are absent or can be sliced and joined
\* (C7 says nothing about genres).
GenresJoinable(media) == media.kind = "object" /\ JoinGenres(media).ok

\* C7: normalisation never raises on a missing or null title, score or url;
\* the title is the English one, else the romanized one, else "Untitled"; a
\* missing or null score becomes "N/A"; order and number are kept.
C7_NormalizeContract ==
  (unit = "normalize" /\ ret.kind = "returned"
   /\ \A i \in 1..Len(arg) : GenresJoinable(arg[i])) =>
    /\ ret.val.ok
    /\ Len(ret.val.recs) = Len(arg)
    /\ \A i \in 1..Len(arg) :
         /\ ret.val.recs[i].title.val = ClaimedTitle(arg[i]).val
         /\ arg[i].averageScore.kind \in {"absent", "null"}
              => /\ ret.val.recs[i].score.kind = "str"
                 /\ ret.val.recs[i].score.val = NotAvailable.val

\* C8: a request that has started is eventually answered.
C8_EventuallyResponds ==
  \A i \in Ids : (pc[i] \in {"extract", "anilist", "synth"}) ~> (pc[i] = "done")

\* C9: a response served from the cache was computed for a request with the
\* same query text.
C9_CacheKeyedByQueryText ==
  \A i \in Ids :
    (/\ Answered(i) /\ from_cache[i]
     /\ RawQueryText(request[i]).ok /\ RawQueryText(origin[i]).ok)
      => RawQueryText(origin[i]).val = RawQueryText(request[i]).val

\* The body of a 200 reply is no JSON, or its data/Page/media path is null
\* or absent.
PathMissing(body) ==
  IF body.kind # "object" THEN TRUE
  ELSE IF body.data.kind # "object" THEN body.data.kind \in {"absent", "null"}
  ELSE IF body.data.Page.kind # "object"
  THEN body.data.Page.kind \in {"absent", "null"}
  ELSE body.data.Page.media.kind \in {"absent", "null"}

\* The metadata call failed: it raised, or the status is not 200, or the
\* body is malformed.
MetadataFailed(m) ==
  \/ m.kind = "raise"
  \/ m.kind = "http" /\ m.status # 200
  \/ m.kind = "http" /\ m.status = 200 /\ PathMissing(m.body)

\* C10: a request whose metadata call failed is answered with the "try
\* again" message, after one metadata call and without a synthesis call.
C10_MetadataFailureMessage ==
  \A i \in Ids :
    (pc[i] # "anilist" /\ MetadataFailed(anilist_reply[i])) =>
      /\ pc[i] = "done"
      /\ IsFixedResponse(response[i], ApiErrorResponse)
      /\ anilist_calls[i] = 1
      /\ \A k \in 1..Len(lm_calls[i]) : lm_calls[i][k] # "synthesis"

====
